---- MODULE Spec2Model ----
(***************************************************************************)
(* A model of webtreemap's command line front end (src/src/cli.ts) and of  *)
(* its coverage processor (src/src/processors/coverage.ts).                *)
(*                                                                         *)
(* Three state machines share the module:                                  *)
(*   Spec      the two text parsers, processSizePathPairs and              *)
(*             processSizeValuePathTuple, scanning an input text line by   *)
(*             line;                                                       *)
(*   SpecXml   processXml, the join of a coverage report onto the list of  *)
(*             on-disk files, run and run again;                           *)
(*   SpecTree  treeFromRows, from the tree the tree builder returns to the *)
(*             node handed back to main.                                   *)
(*                                                                         *)
(* Text is modelled as it is: a line is a sequence of one-character        *)
(* strings, and the regular expressions and numeric conversions of the     *)
(* code are operators on such sequences.  A JavaScript number is           *)
(* [m |-> mantissa, f |-> number of fraction digits] (the decimal m/10^f,  *)
(* kept normalised so that equal numbers are equal records), NaN and       *)
(* undefined are records of their own.                                     *)
(***************************************************************************)
EXTENDS Integers, Sequences, FiniteSets, TLC

\* ------------------------------------------------------------------ bounds

\* The longest input text, in lines.
MaxLines == 4
\* The longest list of on-disk files handed to processXml.
MaxFiles == 2
\* The most classes of a package of a coverage report.
MaxClasses == 2
\* The most runs of processXml on the same rows.
MaxRuns == 2
\* The most children of a node of a built tree.
MaxKids == 2

\* ----------------------------------------------------------------- values

Undefined == [undef |-> TRUE]
NaN == [nan |-> TRUE]

RECURSIVE Normalise(_, _)
\* m/10^f with the trailing zeros of the fraction removed.
Normalise(m, f) ==
  IF f > 0 /\ m % 10 = 0 THEN Normalise(m \div 10, f - 1) ELSE [m |-> m, f |-> f]

Num(m, f) == Normalise(m, f)

Int2Num(n) == Num(n, 0)

IsNumber(v) == DOMAIN v = {"m", "f"}

IsNegative(v) == IsNumber(v) /\ v.m < 0

\* ------------------------------------------------------------- characters

Whitespace == {" "}

Digits == {"0", "1", "2", "3", "4", "5", "6", "7", "8", "9"}

HexDigits == Digits \cup {"a", "b", "c"}

DigitVal(c) ==
  CASE c = "0" -> 0 [] c = "1" -> 1 [] c = "2" -> 2 [] c = "3" -> 3
    [] c = "4" -> 4 [] c = "5" -> 5 [] c = "6" -> 6 [] c = "7" -> 7
    [] c = "8" -> 8 [] c = "9" -> 9 [] c = "a" -> 10 [] c = "b" -> 11
    [] c = "c" -> 12

Drop(s, n) == SubSeq(s, n + 1, Len(s))

Take(s, n) == SubSeq(s, 1, n)

AllIn(s, S) == \A k \in 1..Len(s) : s[k] \in S

RECURSIVE DigitsValue(_, _)
\* The value of a string of digits in the given base.
DigitsValue(s, base) ==
  IF s = <<>> THEN 0
  ELSE DigitsValue(Take(s, Len(s) - 1), base) * base + DigitVal(s[Len(s)])

\* The index of the first "." of s, or 0.
DotAt(s) ==
  IF \E k \in 1..Len(s) : s[k] = "."
  THEN CHOOSE k \in 1..Len(s) : s[k] = "." /\ \A j \in 1..(k - 1) : s[j] # "."
  ELSE 0

\* An unsigned decimal literal: digits, digits "." digits*, or "." digits.
IsUnsignedDecimal(s) ==
  LET d == DotAt(s) IN
  IF d = 0 THEN s # <<>> /\ AllIn(s, Digits)
  ELSE /\ AllIn(Take(s, d - 1), Digits)
       /\ AllIn(Drop(s, d), Digits)
       /\ Len(s) > 1

UnsignedDecimalValue(s) ==
  LET d == DotAt(s) IN
  IF d = 0 THEN Num(DigitsValue(s, 10), 0)
  ELSE Num(DigitsValue(Take(s, d - 1) \o Drop(s, d), 10), Len(s) - d)

IsDecimal(s) ==
  \/ IsUnsignedDecimal(s)
  \/ s # <<>> /\ s[1] = "-" /\ IsUnsignedDecimal(Drop(s, 1))

DecimalValue(s) ==
  IF s[1] = "-"
  THEN LET v == UnsignedDecimalValue(Drop(s, 1)) IN Num(0 - v.m, v.f)
  ELSE UnsignedDecimalValue(s)

IsHex(s) ==
  /\ Len(s) > 2
  /\ s[1] = "0"
  /\ s[2] = "x"
  /\ AllIn(Drop(s, 2), HexDigits)

\* Number(s) for a string without whitespace: a signed decimal literal or an
\* unsigned hexadecimal one, else NaN.  (Exponents, Infinity, "+", and the
\* binary and octal prefixes need characters the inputs here do not hold.)
Number(s) ==
  IF s = <<>> THEN Num(0, 0)
  ELSE IF IsHex(s) THEN Num(DigitsValue(Drop(s, 2), 16), 0)
  ELSE IF IsDecimal(s) THEN DecimalValue(s)
  ELSE NaN

isNaN(v) == v = NaN

\* -------------------------------------------------------------- parseLine

\* line.match(/^\s*$/)
IsBlank(line) == AllIn(line, Whitespace)

\* The index of the first non-whitespace character of a non-blank line.
FirstNonWs(line) ==
  CHOOSE k \in 1..Len(line) :
    /\ line[k] \notin Whitespace
    /\ \A j \in 1..(k - 1) : line[j] \in Whitespace

\* The index after the run of characters of class S that starts at k.
RunEnd(line, k, S) ==
  CHOOSE e \in k..(Len(line) + 1) :
    /\ \A j \in k..(e - 1) : line[j] \in S
    /\ e = Len(line) + 1 \/ line[e] \notin S

NonWhitespace(line) == {line[k] : k \in 1..Len(line)} \ Whitespace

\* line.match(/(\S+)\s+(.*)/), not anchored: the leftmost match starts at the
\* line's first non-whitespace character, (\S+) is the whole run from there,
\* and there is a match when whitespace follows that run.  The match is
\* [matched, sizeStr, path]; the rest of the line, to its end, is the path.
SplitMatch(line) ==
  IF IsBlank(line) THEN [matched |-> FALSE]
  ELSE
    LET s == FirstNonWs(line)
        e == RunEnd(line, s, NonWhitespace(line))
    IN IF e > Len(line) THEN [matched |-> FALSE]
       ELSE [matched |-> TRUE,
             sizeStr |-> SubSeq(line, s, e - 1),
             path    |-> Drop(line, RunEnd(line, e, Whitespace) - 1)]

ErrorOf(line) ==
  [message |-> "Unable to parse NaN as a number in line", line |-> line]

\* A parseLine without the isNaN test: the NaN goes out as the size.
parseLineUnchecked(line) ==
  IF IsBlank(line) THEN [throws |-> FALSE, value |-> <<(<<>>), Int2Num(0)>>]
  ELSE
    LET m == SplitMatch(line) IN
    IF m.matched
    THEN [throws |-> FALSE, value |-> <<m.path, Number(m.sizeStr)>>]
    ELSE [throws |-> FALSE, value |-> <<line, Int2Num(1)>>]

\* parseLine: [throws |-> FALSE, value |-> <<path, size>>], or the Error thrown.
parseLine(line) ==
  IF IsBlank(line) THEN [throws |-> FALSE, value |-> <<(<<>>), Int2Num(0)>>]
  ELSE
    LET m == SplitMatch(line) IN
    IF m.matched
    THEN LET size == Number(m.sizeStr) IN
         IF isNaN(size)
         THEN [throws |-> TRUE, error |-> ErrorOf(line)]
         ELSE [throws |-> FALSE, value |-> <<m.path, size>>]
    ELSE [throws |-> FALSE, value |-> <<line, Int2Num(1)>>]

\* line.match(/\[\[(.*)\]\]/), not anchored: "[[" and, after it, "]]".
IsValueDelimeter(line) ==
  \E a \in 1..Len(line), b \in 1..Len(line) :
    /\ a + 1 < b
    /\ b + 1 <= Len(line)
    /\ line[a] = "[" /\ line[a + 1] = "["
    /\ line[b] = "]" /\ line[b + 1] = "]"

\* ------------------------------------------------------------- the inputs

\* The lines an input text is made of.
Lines ==
  { <<"1", "0", " ", "/", "x">>,
    <<"2", "0", " ", "/", "y">>,
    <<"[", "[", " ", "s", " ", "]", "]">>,
    <<"0", ".", "3", " ", "/", "x">>,
    <<"0", ".", "5", " ", "/", "z">>,
    <<"a", "b", "c", " ", "/", "x">>,
    <<"-", "1", " ", "/", "y">>,
    <<"/", "z">>,
    <<>>,
    <<" ">> }

RECURSIVE SeqsUpTo(_, _)
\* The sequences over S of length 1..n.
SeqsUpTo(S, n) ==
  IF n = 1 THEN {<<x>> : x \in S}
  ELSE LET shorter == SeqsUpTo(S, n - 1) IN
       shorter \cup {Append(t, x) : t \in {u \in shorter : Len(u) = n - 1}, x \in S}

\* text.split('\n'): at least one line, the empty text being one blank line.
Texts == SeqsUpTo(Lines, MaxLines)

\* ------------------------------------------------------------------ state

VARIABLES
  proc,                 \* the ProcessorFn main picked: "pairs" or "tuple"
  text,                 \* text.split('\n')
  i,                    \* the index of the line the loop is at
  results,              \* the rows built so far
  ptrs,                 \* path -> index in results of the row the Map holds
  foundValueDelimeter,
  outcome,              \* running, returned (with the rows) or thrown (the Error)
  fileSizes,            \* processXml: the on-disk rows, mutated in place
  report,               \* processXml: the parsed coverage report
  runs,                 \* processXml: how many times it ran on fileSizes
  firstRun,             \* processXml: fileSizes as the first run left it
  xmlThrew,             \* processXml: whether the last run ended in a throw
  built,                \* treeFromRows: the tree tree.treeify returned
  doRollup,             \* treeFromRows: its second argument
  node,                 \* treeFromRows: the local variable node
  tpc                   \* treeFromRows: the statement it is at

parserVars == <<proc, text, i, results, ptrs, foundValueDelimeter, outcome>>

xmlVars == <<fileSizes, report, runs, firstRun, xmlThrew>>

treeVars == <<built, doRollup, node, tpc>>

vars == <<parserVars, xmlVars, treeVars>>

Running == [kind |-> "running"]

Returned(rows) == [kind |-> "returned", rows |-> rows]

Thrown(e) == [kind |-> "thrown", error |-> e]

\* The machines a specification does not run stay as they are constructed.
XmlIdle ==
  /\ fileSizes = <<>>
  /\ report = [prefix |-> <<>>, packages |-> <<>>]
  /\ runs = 0
  /\ firstRun = <<>>
  /\ xmlThrew = FALSE

TreeIdle ==
  /\ built = [ref |-> 0, id |-> Undefined, size |-> 0, children |-> <<>>]
  /\ doRollup = FALSE
  /\ node = built
  /\ tpc = "idle"

ParserIdle ==
  /\ proc = "none"
  /\ text = <<>>
  /\ i = 1
  /\ results = <<>>
  /\ ptrs = <<>>
  /\ foundValueDelimeter = FALSE
  /\ outcome = Returned(<<>>)

\* ------------------------------------------------------------ the parsers

\* The state when the loop over the lines is entered.
ParserInit ==
  /\ proc \in {"pairs", "tuple"}
  /\ text \in Texts
  /\ i = 1
  /\ results = <<>>
  /\ ptrs = <<>>
  /\ foundValueDelimeter = FALSE
  /\ outcome = Running

AtLine(p) == proc = p /\ outcome = Running /\ i <= Len(text)

\* A Map that keeps the first value set for a key.
MapSetKeepFirst(map, key, v) ==
  [k \in DOMAIN map \cup {key} |-> IF k \in DOMAIN map THEN map[k] ELSE v]

\* map.set(key, v) on a Map kept as a function.
MapSet(map, key, v) ==
  [k \in DOMAIN map \cup {key} |-> IF k = key THEN v ELSE map[k]]

\* row[2] = v on a row of two or of three elements.
SetValue(row, v) == <<row[1], row[2], v>>

\* processSizePathPairs: text.split('\n').map(parseLine), one line.
MapLine ==
  /\ AtLine("pairs")
  /\ LET r == parseLine(text[i]) IN
     IF r.throws
     THEN /\ outcome' = Thrown(r.error)
          /\ UNCHANGED <<results, i>>
     ELSE /\ results' = Append(results, r.value)
          /\ i' = i + 1
          /\ UNCHANGED outcome
  /\ UNCHANGED <<proc, text, ptrs, foundValueDelimeter, xmlVars, treeVars>>

\* processSizePathPairs returns the mapped array.
MapReturn ==
  /\ proc = "pairs" /\ outcome = Running /\ i > Len(text)
  /\ outcome' = Returned(results)
  /\ UNCHANGED <<proc, text, i, results, ptrs, foundValueDelimeter, xmlVars, treeVars>>

\* A delimiter line that switches the mode back and forth.
DelimiterLineToggles ==
  /\ AtLine("tuple")
  /\ IsValueDelimeter(text[i])
  /\ foundValueDelimeter' = ~foundValueDelimeter
  /\ i' = i + 1
  /\ UNCHANGED <<proc, text, results, ptrs, outcome, xmlVars, treeVars>>

\* processSizeValuePathTuple, a delimiter line.
DelimiterLine ==
  /\ AtLine("tuple")
  /\ IsValueDelimeter(text[i])
  /\ foundValueDelimeter' = TRUE
  /\ i' = i + 1
  /\ UNCHANGED <<proc, text, results, ptrs, outcome, xmlVars, treeVars>>

\* processSizeValuePathTuple, a line parseLine throws on: the Error leaves
\* the function, which has returned nothing.
LineThrows ==
  /\ AtLine("tuple")
  /\ ~IsValueDelimeter(text[i])
  /\ parseLine(text[i]).throws
  /\ outcome' = Thrown(parseLine(text[i]).error)
  /\ UNCHANGED <<proc, text, i, results, ptrs, foundValueDelimeter, xmlVars, treeVars>>

\* processSizeValuePathTuple, a line before the delimiter.
PrimaryLine ==
  /\ AtLine("tuple")
  /\ ~IsValueDelimeter(text[i])
  /\ ~parseLine(text[i]).throws
  /\ ~foundValueDelimeter
  /\ LET newLineData == parseLine(text[i]).value IN
     /\ ptrs' = MapSet(ptrs, newLineData[1], Len(results) + 1)
     /\ results' = Append(results, newLineData)
  /\ i' = i + 1
  /\ UNCHANGED <<proc, text, foundValueDelimeter, outcome, xmlVars, treeVars>>

\* An overlay section that ignores the paths the primary section did not list.
OverlayRowsIgnoreNew(rows, map, newLineData) ==
  IF newLineData[1] \in DOMAIN map
  THEN [rows EXCEPT ![map[newLineData[1]]] = SetValue(@, newLineData[2])]
  ELSE rows

\* An overlay section in which the first value given to a row stays.
OverlayRowsFirstWins(rows, map, newLineData) ==
  IF newLineData[1] \in DOMAIN map
  THEN [rows EXCEPT ![map[newLineData[1]]] =
          IF Len(@) = 3 THEN @ ELSE SetValue(@, newLineData[2])]
  ELSE Append(rows, <<newLineData[1], Int2Num(0), newLineData[2]>>)

\* The rows after a line of the overlay section.
OverlayRows(rows, map, newLineData) ==
  IF newLineData[1] \in DOMAIN map
  THEN [rows EXCEPT ![map[newLineData[1]]] = SetValue(@, newLineData[2])]
  ELSE Append(rows, <<newLineData[1], Int2Num(0), newLineData[2]>>)

\* processSizeValuePathTuple, a line after the delimiter.
OverlayLine ==
  /\ AtLine("tuple")
  /\ ~IsValueDelimeter(text[i])
  /\ ~parseLine(text[i]).throws
  /\ foundValueDelimeter
  /\ results' = OverlayRows(results, ptrs, parseLine(text[i]).value)
  /\ i' = i + 1
  /\ UNCHANGED <<proc, text, ptrs, foundValueDelimeter, outcome, xmlVars, treeVars>>

\* A sentinel set without looking at the first row's length.
WithSentinelAlways(rows, found) ==
  IF rows = <<>> THEN rows
  ELSE IF found
  THEN [rows EXCEPT ![1] = SetValue(@, Undefined)]
  ELSE rows

\* The rows processSizeValuePathTuple returns, after the loop.
WithSentinel(rows, found) ==
  IF rows = <<>> THEN rows
  ELSE IF found /\ Len(rows[1]) = 2
  THEN [rows EXCEPT ![1] = SetValue(@, Undefined)]
  ELSE rows

TupleReturn ==
  /\ proc = "tuple" /\ outcome = Running /\ i > Len(text)
  /\ results' = WithSentinel(results, foundValueDelimeter)
  /\ outcome' = Returned(results')
  /\ UNCHANGED <<proc, text, i, ptrs, foundValueDelimeter, xmlVars, treeVars>>

ParserNext ==
  \/ MapLine
  \/ MapReturn
  \/ DelimiterLine
  \/ LineThrows
  \/ PrimaryLine
  \/ OverlayLine
  \/ TupleReturn

\* ------------------------------------------------------------- processXml

\* The longest prefix of s that is a decimal literal, as parseFloat reads it
\* (leading whitespace skipped); its length, 0 when there is none.
FloatPrefix(s) ==
  LET ok == {k \in 1..Len(s) : IsDecimal(Take(s, k))} IN
  IF ok = {} THEN 0 ELSE CHOOSE k \in ok : \A j \in ok : j <= k

parseFloat(str) ==
  LET s == Drop(str, RunEnd(str, 1, Whitespace) - 1) IN
  IF FloatPrefix(s) = 0 THEN NaN ELSE DecimalValue(Take(s, FloatPrefix(s)))

RECURSIVE Split(_)
\* path.split('/'): the segments between the slashes, empty ones included.
Split(path) ==
  IF \E k \in 1..Len(path) : path[k] = "/"
  THEN LET k == RunEnd(path, 1, {path[j] : j \in 1..Len(path)} \ {"/"}) IN
       <<Take(path, k - 1)>> \o Split(Drop(path, k))
  ELSE <<path>>

RECURSIVE JoinWith(_)
\* segments.join('/')
JoinWith(segments) ==
  IF segments = <<>> THEN <<>>
  ELSE IF Len(segments) = 1 THEN segments[1]
  ELSE segments[1] \o <<"/">> \o JoinWith(Tail(segments))

RECURSIVE normalizeString(_, _, _)
\* Node's normalizeString on the segments not yet read: "" and "." are
\* dropped, ".." removes the segment before it, or stays when there is none
\* to remove and the path is relative.
normalizeString(segments, res, allowAboveRoot) ==
  IF segments = <<>> THEN res
  ELSE
    LET seg == Head(segments) IN
    IF seg = <<>> \/ seg = <<".">>
    THEN normalizeString(Tail(segments), res, allowAboveRoot)
    ELSE IF seg = <<".", ".">>
    THEN IF res # <<>> /\ res[Len(res)] # <<".", ".">>
         THEN normalizeString(Tail(segments), Take(res, Len(res) - 1), allowAboveRoot)
         ELSE IF allowAboveRoot
         THEN normalizeString(Tail(segments), Append(res, seg), allowAboveRoot)
         ELSE normalizeString(Tail(segments), res, allowAboveRoot)
    ELSE normalizeString(Tail(segments), Append(res, seg), allowAboveRoot)

\* path.normalize (posix)
normalize(path) ==
  IF path = <<>> THEN <<".">>
  ELSE
    LET isAbsolute == path[1] = "/"
        trailingSeparator == path[Len(path)] = "/"
        body == JoinWith(normalizeString(Split(path), <<>>, ~isAbsolute))
    IN IF body = <<>>
       THEN IF isAbsolute THEN <<"/">>
            ELSE IF trailingSeparator THEN <<".", "/">> ELSE <<".">>
       ELSE (IF isAbsolute THEN <<"/">> ELSE <<>>) \o body
            \o (IF trailingSeparator THEN <<"/">> ELSE <<>>)

\* path.join(a, b) (posix): the non-empty arguments joined by "/", normalized.
pathJoin(a, b) ==
  IF a = <<>> /\ b = <<>> THEN <<".">>
  ELSE IF a = <<>> THEN normalize(b)
  ELSE IF b = <<>> THEN normalize(a)
  ELSE normalize(a \o <<"/">> \o b)

\* The Map processXml builds from fileSizes: path -> the index of the last
\* row with that path.
PtrsOf(rows) ==
  [p \in {rows[k][1] : k \in 1..Len(rows)} |->
     CHOOSE k \in 1..Len(rows) :
       rows[k][1] = p /\ \A j \in 1..Len(rows) : rows[j][1] = p => j <= k]

\* The sum of two numbers; NaN when either is no number.
NumAdd(a, b) ==
  IF ~IsNumber(a) \/ ~IsNumber(b) THEN NaN
  ELSE IF a.f >= b.f THEN Num(a.m + b.m * 10^(a.f - b.f), a.f)
  ELSE Num(a.m * 10^(b.f - a.f) + b.m, b.f)

\* A processXml that adds the line rate to the value a row already has.
AttachAccumulating(rows, map, prefix, class) ==
  LET fullPath == pathJoin(prefix, class.filename) IN
  IF fullPath \notin DOMAIN map THEN rows
  ELSE [rows EXCEPT ![map[fullPath]] =
          SetValue(@, IF Len(@) = 3 THEN NumAdd(@[3], parseFloat(class.lineRate))
                      ELSE parseFloat(class.lineRate))]

\* The body of the inner loop: one class of the report.
AttachValue(rows, map, prefix, class) ==
  LET fullPath == pathJoin(prefix, class.filename) IN
  IF fullPath \notin DOMAIN map THEN rows
  ELSE [rows EXCEPT ![map[fullPath]] = SetValue(@, parseFloat(class.lineRate))]

RECURSIVE ForClasses(_, _, _, _, _)
\* The rows after the inner loop read the first n classes of a package.
ForClasses(rows, map, prefix, classes, n) ==
  IF n = 0 THEN rows
  ELSE AttachValue(ForClasses(rows, map, prefix, classes, n - 1), map, prefix, classes[n])

RECURSIVE ForPackages(_, _, _, _, _)
\* The rows after the outer loop read the first n packages, and whether a
\* for-of met a value that is no array, which is a TypeError.
ForPackages(rows, map, prefix, packages, n) ==
  IF n = 0 THEN [rows |-> rows, threw |-> FALSE]
  ELSE
    LET before == ForPackages(rows, map, prefix, packages, n - 1) IN
    IF before.threw THEN before
    ELSE IF ~packages[n].isArray THEN [rows |-> before.rows, threw |-> TRUE]
    ELSE [rows |-> ForClasses(before.rows, map, prefix, packages[n].items,
                              Len(packages[n].items)),
          threw |-> FALSE]

\* processXml on the parsed report: the rows as it leaves them, and whether
\* it threw.
processXml(rep, rows) ==
  IF ~rep.packages.isArray THEN [rows |-> rows, threw |-> TRUE]
  ELSE ForPackages(rows, PtrsOf(rows), rep.prefix, rep.packages.items,
                   Len(rep.packages.items))

\* The paths getFiles found on disk.
DiskPaths == { <<"/", "s", "/", "a">>, <<"/", "s", "/", "b">> }

\* The rows of the files on disk: [path, size], sizes told apart by position.
RowLists ==
  {<<>>} \cup
  { [k \in 1..Len(ps) |-> <<ps[k], Int2Num(10 * k)>>] : ps \in SeqsUpTo(DiskPaths, MaxFiles) }

\* The <class> elements of a report: @_filename and @_line-rate.
Classes ==
  { [filename |-> <<"a">>, lineRate |-> <<"0", ".", "5">>],
    [filename |-> <<".", "/", "a">>, lineRate |-> <<"1">>],
    [filename |-> <<"c">>, lineRate |-> <<"x">>] }

\* What the parser gives for the children of an element: an array of them,
\* or, for a single child, the child itself, which for-of cannot iterate.
Children(S, n) ==
  {[isArray |-> TRUE, items |-> t] : t \in SeqsUpTo(S, n)}
    \cup {[isArray |-> FALSE, items |-> <<x>>] : x \in S}

\* A report of one or two packages.
Reports ==
  { [prefix |-> pre, packages |-> pk] :
      pre \in { <<"/", "s">>, <<"/", "s", "/">> },
      pk \in Children(Children(Classes, MaxClasses), 2) }

XmlInit ==
  /\ fileSizes \in RowLists
  /\ report \in Reports
  /\ runs = 0
  /\ firstRun = <<>>
  /\ xmlThrew = FALSE

\* processXml(xml, fileSizes), the first time or once more on the same rows.
RunProcessXml ==
  /\ runs < MaxRuns
  /\ fileSizes' = processXml(report, fileSizes).rows
  /\ xmlThrew' = processXml(report, fileSizes).threw
  /\ runs' = runs + 1
  /\ firstRun' = IF runs = 0 THEN fileSizes' ELSE firstRun
  /\ UNCHANGED <<report, parserVars, treeVars>>

XmlNext == RunProcessXml

InitXml == XmlInit /\ ParserIdle /\ TreeIdle

SpecXml == InitXml /\ [][XmlNext]_vars

\* C4: processXml is idempotent: run again with the same report on the rows
\* the first run left, it leaves every path, size and value as they were.
C4_ProcessXmlIdempotent == runs >= 2 => fileSizes = firstRun

C4_Witness ==
  /\ runs = 2
  /\ ~xmlThrew
  /\ Len(fileSizes) = 2
  /\ fileSizes[1] = <<(<<"/", "s", "/", "a">>), Num(10, 0), Num(1, 0)>>
  /\ Len(fileSizes[2]) = 2
  /\ report.packages.items[1].items =
       << [filename |-> <<"a">>, lineRate |-> <<"0", ".", "5">>],
          [filename |-> <<"c">>, lineRate |-> <<"x">>] >>
  /\ report.packages.items[2].items[1] =
       [filename |-> <<".", "/", "a">>, lineRate |-> <<"1">>]

\* ----------------------------------------------------------- treeFromRows

\* A tree.Node is [ref, id, size, children]: ref stands for the object's
\* identity, id is Id(chars) or Undefined, size is an integer, and children
\* is the sequence of child nodes, empty for a node without children (a
\* missing children array and an empty one take the same branches below).
\* A node's value is left out: treeFromRows does not read it.
Id(chars) == [chars |-> chars]

Node(ref, id, size, children) ==
  [ref |-> ref, id |-> id, size |-> size, children |-> children]

\* The sequences over S of length 0..n.
SeqsFromEmpty(S, n) == IF n = 0 THEN {<<>>} ELSE {<<>>} \cup SeqsUpTo(S, n)

\* The shapes of a child of the root, before it is given its place.
ChildShapes ==
  { [id |-> Id(<<ch>>), size |-> sz, kids |-> c] :
      ch \in {"a", "b"}, sz \in {0, 1}, c \in 0..MaxKids }

\* The trees tree.treeify may hand back, and some it may not (a root with
\* an id): a root, up to MaxKids children, up to MaxKids leaves under each.
Trees ==
  { Node(0, rid, rsize,
         [k \in 1..Len(shapes) |->
            Node(k, shapes[k].id, shapes[k].size,
                 [j \in 1..shapes[k].kids |->
                    Node(10 * k + j, Id(<<"c">>), 1, <<>>)])]) :
      rid \in {Undefined, Id(<<"r">>)},
      rsize \in {0, 3},
      shapes \in SeqsFromEmpty(ChildShapes, MaxKids) }

RECURSIVE SumSizes(_)
SumSizes(nodes) ==
  IF nodes = <<>> THEN 0 ELSE nodes[1].size + SumSizes(Tail(nodes))

\* A promotion that does not look at the root's id.
PromotedWhateverId(n) ==
  IF Len(n.children) = 1 THEN n.children[1] ELSE n

\* "If there's a common empty parent, skip it."
Promoted(n) ==
  IF n.id = Undefined /\ Len(n.children) = 1 THEN n.children[1] ELSE n

\* "If there's an empty parent, roll up for it."
WithRootSize(n) ==
  IF n.size = 0 /\ n.children # <<>>
  THEN [n EXCEPT !.size = SumSizes(n.children)]
  ELSE n

RECURSIVE rollup(_)
\* tree.rollup: an internal node's size is the sum of its children's sizes.
rollup(n) ==
  IF n.children = <<>> THEN n
  ELSE LET kids == [k \in 1..Len(n.children) |-> rollup(n.children[k])] IN
       [n EXCEPT !.children = kids, !.size = SumSizes(kids)]

\* The order of the characters ids are made of.
CharOrder == <<"/", "a", "b", "c", "r">>

Ord(c) == CHOOSE k \in 1..Len(CharOrder) : CharOrder[k] = c

RECURSIVE LexLess(_, _)
LexLess(a, b) ==
  IF b = <<>> THEN FALSE
  ELSE IF a = <<>> THEN TRUE
  ELSE IF a[1] # b[1] THEN Ord(a[1]) < Ord(b[1])
  ELSE LexLess(Tail(a), Tail(b))

\* Descending size, ties by ascending id.
Before(a, b) ==
  a.size > b.size \/ (a.size = b.size /\ LexLess(a.id.chars, b.id.chars))

RECURSIVE sort(_)
\* tree.sort: every node's children in that order.
sort(n) ==
  [n EXCEPT !.children =
     SortSeq([k \in 1..Len(n.children) |-> sort(n.children[k])], Before)]

RECURSIVE flattenBelow(_)
\* A node that is not the root, flattened: its children first, then the
\* node joined with its only child for as long as it has one.
flattenBelow(n) ==
  LET kids == [k \in 1..Len(n.children) |-> flattenBelow(n.children[k])] IN
  IF Len(kids) = 1
  THEN [n EXCEPT !.id = Id(n.id.chars \o <<"/">> \o kids[1].id.chars),
                 !.size = kids[1].size,
                 !.children = kids[1].children]
  ELSE [n EXCEPT !.children = kids]

\* tree.flatten: the root itself is not joined with a child.
flatten(n) ==
  [n EXCEPT !.children = [k \in 1..Len(n.children) |-> flattenBelow(n.children[k])]]

TreeInit ==
  /\ built \in Trees
  /\ doRollup \in BOOLEAN
  /\ node = built
  /\ tpc = "promote"

\* let node = tree.treeify(rows); if (...) node = node.children[0]
Promote ==
  /\ tpc = "promote"
  /\ node' = Promoted(node)
  /\ tpc' = "rootSize"
  /\ UNCHANGED <<built, doRollup, parserVars, xmlVars>>

RootSize ==
  /\ tpc = "rootSize"
  /\ node' = WithRootSize(node)
  /\ tpc' = "rollup"
  /\ UNCHANGED <<built, doRollup, parserVars, xmlVars>>

Rollup ==
  /\ tpc = "rollup"
  /\ node' = IF doRollup THEN rollup(node) ELSE node
  /\ tpc' = "sort"
  /\ UNCHANGED <<built, doRollup, parserVars, xmlVars>>

Sort ==
  /\ tpc = "sort"
  /\ node' = sort(node)
  /\ tpc' = "flatten"
  /\ UNCHANGED <<built, doRollup, parserVars, xmlVars>>

Flatten ==
  /\ tpc = "flatten"
  /\ node' = flatten(node)
  /\ tpc' = "returned"
  /\ UNCHANGED <<built, doRollup, parserVars, xmlVars>>

TreeNext ==
  \/ Promote
  \/ RootSize
  \/ Rollup
  \/ Sort
  \/ Flatten

InitTree == TreeInit /\ ParserIdle /\ XmlIdle

SpecTree == InitTree /\ [][TreeNext]_vars

\* The objects one and two levels below the built root.
ChildRefs == {built.children[k].ref : k \in 1..Len(built.children)}

GrandchildRefs ==
  UNION { {built.children[k].children[j].ref : j \in 1..Len(built.children[k].children)} :
          k \in 1..Len(built.children) }

\* C5: the node treeFromRows hands to rollup, sort and flatten and returns
\* is the built root's only child when the built root has no id and exactly
\* one child, and is the built root itself otherwise; it is never a
\* grandchild of the built root.
C5_RootPromotedOnce ==
  tpc \in {"rootSize", "rollup", "sort", "flatten", "returned"} =>
    /\ (built.id = Undefined /\ Len(built.children) = 1) =>
         node.ref = built.children[1].ref /\ node.ref \in ChildRefs
    /\ ~(built.id = Undefined /\ Len(built.children) = 1) => node.ref = built.ref
    /\ node.ref \notin GrandchildRefs

C5_Witness ==
  /\ tpc = "returned"
  /\ built.id = Undefined
  /\ Len(built.children) = 1
  /\ Len(built.children[1].children) = 1
  /\ node.ref = 1
  /\ node.id = Id(<<"a">>)

\* ------------------------------------------------------ specifications

Init == ParserInit /\ XmlIdle /\ TreeIdle

Next == ParserNext

Spec == Init /\ [][Next]_vars

\* ------------------------------------------------- the parsers: properties

\* row[2] as JavaScript reads it: undefined on a row of two elements.
Value(row) == IF Len(row) = 3 THEN row[3] ELSE Undefined

\* A line of the shape token, whitespace, rest, whose token is no number.
MalformedNumeric(line) ==
  \E k \in 1..(Len(line) - 1) :
    /\ \A j \in 1..k : line[j] \notin Whitespace
    /\ line[k + 1] \in Whitespace
    /\ Number(Take(line, k)) = NaN

\* The line numbers of the delimiter lines of the text.
DelimiterLines == {j \in 1..Len(text) : IsValueDelimeter(text[j])}

\* The lines of the primary section: those before the first delimiter line.
PrimaryLines == {j \in 1..Len(text) : \A d \in DelimiterLines : j < d}

\* The lines of the overlay section that are no delimiter lines.
OverlayLines ==
  {j \in 1..Len(text) : j \notin DelimiterLines /\ \E d \in DelimiterLines : d < j}

\* The path and the number a line that parses stands for.
PathOf(line) == parseLine(line).value[1]

NumberOf(line) == parseLine(line).value[2]

\* The loop of processSizeValuePathTuple is at a line, and this step is its
\* iteration on that line.
TupleStep == proc = "tuple" /\ outcome = Running /\ i <= Len(text) /\ i' = i + 1

\* The rows of the primary section with path p (each primary line gave one row).
PrimaryRows(p) == {k \in 1..Len(results) : k \in PrimaryLines /\ results[k][1] = p}

\* The last of them: the row indexed under p when the overlay section starts.
IndexedRow(p) == CHOOSE k \in PrimaryRows(p) : \A j \in PrimaryRows(p) : j <= k

\* C1: a line of the shape token-whitespace-rest whose token is no number,
\* and that is neither blank nor a delimiter line, makes the parser throw an
\* Error carrying that line: a parser that returned rows met no such line,
\* a parser that threw did so at a malformed line and names it, and no row
\* has a NaN size.
C1_MalformedLineThrows ==
  /\ outcome.kind = "returned" =>
       \A j \in 1..Len(text) :
         ~(MalformedNumeric(text[j]) /\ ~IsBlank(text[j]) /\ ~IsValueDelimeter(text[j]))
  /\ outcome.kind = "thrown" =>
       /\ MalformedNumeric(text[i])
       /\ outcome.error.line = text[i]
       /\ DOMAIN outcome = {"kind", "error"}
  /\ \A k \in 1..Len(results) : results[k][2] # NaN
  /\ \A j \in 1..(i - 1) :
       ~(MalformedNumeric(text[j]) /\ ~IsBlank(text[j]) /\ ~IsValueDelimeter(text[j]))

C1_Witness ==
  /\ proc = "tuple"
  /\ outcome.kind = "thrown"
  /\ foundValueDelimeter
  /\ i = 3
  /\ text[i] = <<"a", "b", "c", " ", "/", "x">>
  /\ Len(text) > i

\* The overlay join of the documentation: "10 /x", "20 /y", "[[ s ]]", "0.3 /x".
OverlayExample ==
  << <<"1", "0", " ", "/", "x">>, <<"2", "0", " ", "/", "y">>,
     <<"[", "[", " ", "s", " ", "]", "]">>, <<"0", ".", "3", " ", "/", "x">> >>

\* C2: an overlay line whose path is that of a row indexed in the primary
\* section sets that row's value to the line's number and changes nothing
\* else (path, size, position, length, the other rows); the documented
\* example yields ("/x", 10, 0.3), ("/y", 20, undefined).
C2_OverlayMatchSetsValue ==
  /\ [][(TupleStep /\ i \in OverlayLines /\ PrimaryRows(PathOf(text[i])) # {}) =>
         LET k == IndexedRow(PathOf(text[i])) IN
         /\ Len(results') = Len(results)
         /\ results'[k] = <<results[k][1], results[k][2], NumberOf(text[i])>>
         /\ \A j \in 1..Len(results) : j # k => results'[j] = results[j]]_vars
  /\ [](proc = "tuple" /\ text = OverlayExample /\ outcome.kind = "returned" =>
         /\ Len(outcome.rows) = 2
         /\ outcome.rows[1] = <<(<<"/", "x">>), Num(10, 0), Num(3, 1)>>
         /\ outcome.rows[2][1] = <<"/", "y">>
         /\ outcome.rows[2][2] = Num(20, 0)
         /\ Value(outcome.rows[2]) = Undefined)

C2_Witness ==
  /\ proc = "tuple"
  /\ text = OverlayExample
  /\ outcome.kind = "returned"
  /\ Value(outcome.rows[1]) = Num(3, 1)

C6_BlankLineIgnored ==
  [][(outcome = Running /\ i <= Len(text) /\ i' = i + 1 /\ IsBlank(text[i])) =>
      \A k \in 1..Len(results') :
        \/ k <= Len(results) /\ results'[k] = results[k]
        \/ /\ results'[k][1] = <<>>
           /\ results'[k][2] = Num(0, 0)
           /\ Value(results'[k]) = Undefined]_vars

\* C7 as claimed: every row a parser returns has a size that is a number
\* and is not negative.
C7_SizesNonNegative ==
  outcome.kind = "returned" =>
    \A k \in 1..Len(outcome.rows) :
      IsNumber(outcome.rows[k][2]) /\ ~IsNegative(outcome.rows[k][2])

\* C8: processSizeValuePathTuple starts in primary mode, is in overlay mode
\* exactly when a delimiter line has been passed, never leaves overlay mode,
\* indexes no line and takes no size from a line once in overlay mode, and a
\* delimiter line adds or changes no row.
C8_OverlayModeIsFinal ==
  /\ ~foundValueDelimeter
  /\ [](proc = "tuple" => (foundValueDelimeter <=> \E d \in DelimiterLines : d < i))
  /\ [][foundValueDelimeter =>
          /\ foundValueDelimeter'
          /\ ptrs' = ptrs
          /\ TupleStep =>
               /\ \A k \in 1..Len(results) : results'[k][2] = results[k][2]
               /\ \A k \in (Len(results) + 1)..Len(results') : results'[k][2] = Num(0, 0)]_vars
  /\ [][(TupleStep /\ IsValueDelimeter(text[i])) =>
          results' = results /\ ptrs' = ptrs]_vars

C8_Witness ==
  /\ proc = "tuple"
  /\ outcome = Running
  /\ foundValueDelimeter
  /\ i = 4
  /\ {1, 3} \subseteq DelimiterLines
  /\ text[2] = <<"1", "0", " ", "/", "x">>

\* The overlay lines naming path p, and the last of them.
OverlayLinesOf(p) == {j \in OverlayLines : PathOf(text[j]) = p}

LastOverlayLineOf(p) == CHOOSE j \in OverlayLinesOf(p) : \A l \in OverlayLinesOf(p) : l <= j

RowsOf(rows, p) == {k \in 1..Len(rows) : rows[k][1] = p}

OverlayPaths == {PathOf(text[j]) : j \in OverlayLines}

\* The paths named on overlay lines that are not blank.
NamedOverlayPaths == {PathOf(text[j]) : j \in {l \in OverlayLines : ~IsBlank(text[l])}}

C10_SentinelIffDelimiter ==
  /\ []((proc = "tuple" /\ outcome.kind = "returned" /\ outcome.rows # <<>>) =>
         /\ Len(outcome.rows[1]) = 3 <=> DelimiterLines # {}
         /\ DelimiterLines = {} => \A k \in 1..Len(outcome.rows) : Len(outcome.rows[k]) = 2)
  /\ [][(proc = "tuple" /\ outcome = Running /\ outcome'.kind = "returned") =>
          /\ outcome'.rows = results'
          /\ Len(results') = Len(results)
          /\ \A k \in 1..Len(results) :
               /\ results'[k][1] = results[k][1]
               /\ results'[k][2] = results[k][2]
               /\ Value(results'[k]) = Value(results[k])
               /\ Len(results[k]) = 3 => results'[k] = results[k]]_vars

C10_Witness ==
  /\ proc = "tuple"
  /\ outcome.kind = "returned"
  /\ DelimiterLines # {}
  /\ Len(outcome.rows) = 2
  /\ outcome.rows[1] = <<(<<"/", "x">>), Num(10, 0), Undefined>>
  /\ Value(outcome.rows[2]) = Num(5, 1)

====
